---- MODULE Spec2Model ----
(***************************************************************************)
(* Model of the YouTube video Q&A chatbot: the URL/ID resolver of          *)
(* youtube_utils.py (validate_youtube_url, extract_video_id), the          *)
(* transcript fetcher (get_transcript) and the YouTubeChatbot session of   *)
(* chatbot.py (process_video, _create_chain, ask), and the Process and Get  *)
(* Answer buttons of the Streamlit page of app.py.                         *)
(*                                                                         *)
(* A Python str is a sequence of one-character strings, so that the        *)
(* substring tests, splits and regular expressions of the resolver are     *)
(* computed character by character, as the code computes them.             *)
(***************************************************************************)
EXTENDS Naturals, Integers, Sequences, FiniteSets, TLC

VARIABLES
    vector_store,   \* self.vector_store of the YouTubeChatbot session
    retriever,      \* self.retriever
    chain,          \* self.chain
    nextId,         \* identity of the next object the process creates
    op,             \* the operation called last
    arg,            \* the reference (or question) passed to it
    services,       \* how the external services responded during it
    result,         \* what it returned or raised
    calls,          \* the external services it invoked, in order
    pre,            \* the session fields when it was called
    prev,           \* the call before it: its operation and whether it raised
    lastBuilt,      \* the index built by the most recent successful process_video
    chatbot,        \* st.session_state.chatbot: "None", or the object with the fields above
    video_processed,    \* st.session_state.video_processed
    current_video_id    \* st.session_state.current_video_id

\* the Streamlit session state of app.py
appVars == <<chatbot, video_processed, current_video_id>>

vars == <<vector_store, retriever, chain, nextId, op, arg, services, result, calls, pre,
          prev, lastBuilt, chatbot, video_processed, current_video_id>>

----------------------------------------------------------------------------
(* Bounds of the model *)

\* number of objects (indexes) one run of the process may create
MaxBuilds == 3

----------------------------------------------------------------------------
(* Python str operations used by the resolver *)

\* sub occurs in s at (1-based) position i
OccursAt(s, sub, i) ==
    /\ i >= 1
    /\ i + Len(sub) - 1 <= Len(s)
    /\ SubSeq(s, i, i + Len(sub) - 1) = sub

\* sub in s
Contains(s, sub) == \E i \in 1..Len(s) : OccursAt(s, sub, i)

\* s.find(sub): 0-based index of the first occurrence, -1 when absent
Find(s, sub) ==
    IF Contains(s, sub)
    THEN (CHOOSE i \in 1..Len(s) :
            /\ OccursAt(s, sub, i)
            /\ \A j \in 1..(i - 1) : ~OccursAt(s, sub, j)) - 1
    ELSE -1

\* s.split(sep): the parts between the non-overlapping occurrences of sep
RECURSIVE Split(_, _)
Split(s, sep) ==
    LET p == Find(s, sep) IN
    IF p = -1
    THEN <<s>>
    ELSE <<SubSeq(s, 1, p)>> \o Split(SubSeq(s, p + Len(sep) + 1, Len(s)), sep)

\* s[:n]
Slice(s, n) == SubSeq(s, 1, n)

\* s.startswith(p)
StartsWith(s, p) == OccursAt(s, p, 1)

----------------------------------------------------------------------------
(* The regular expressions of validate_youtube_url *)

Lower == <<"a", "b", "c", "d", "e", "f", "g", "h", "i", "j", "k", "l", "m", "n", "o", "p", "q", "r", "s", "t", "u", "v", "w", "x", "y", "z">>
Upper == <<"A", "B", "C", "D", "E", "F", "G", "H", "I", "J", "K", "L", "M", "N", "O", "P", "Q", "R", "S", "T", "U", "V", "W", "X", "Y", "Z">>
Digit == <<"0", "1", "2", "3", "4", "5", "6", "7", "8", "9">>

Range(s) == {s[i] : i \in 1..Len(s)}

\* the character class [a-zA-Z0-9_-]
IdChars == Range(Lower) \cup Range(Upper) \cup Range(Digit) \cup {"_", "-"}

\* the repetition count {11} of both patterns
IdLen == 11

HttpScheme == <<"h", "t", "t", "p", ":", "/", "/">>
HttpsScheme == <<"h", "t", "t", "p", "s", ":", "/", "/">>
WwwPrefix == <<"w", "w", "w", ".">>
WatchHost == <<"y", "o", "u", "t", "u", "b", "e", ".", "c", "o", "m", "/", "w", "a", "t", "c", "h", "?", "v", "=">>
ShortHost == <<"y", "o", "u", "t", "u", ".", "b", "e", "/">>

\* (https?://)?
SchemeAlts == {<<>>, HttpScheme, HttpsScheme}
\* (www\.)?
WwwAlts == {<<>>, WwwPrefix}
\* (youtube\.com/watch\?v=|youtu\.be/)
HostAlts == {WatchHost, ShortHost}

\* [a-zA-Z0-9_-]{11} matches s from (1-based) position i on
IdAt(s, i) ==
    /\ i + IdLen - 1 <= Len(s)
    /\ \A k \in i..(i + IdLen - 1) : s[k] \in IdChars

\* re.match(youtube_regex, s): the pattern matches a prefix of s
\* (re.match anchors at the start only; the pattern has no $)
MatchYoutubeRegex(s) ==
    \E sch \in SchemeAlts, www \in WwwAlts, host \in HostAlts :
        LET p == sch \o www \o host IN
        /\ StartsWith(s, p)
        /\ IdAt(s, Len(p) + 1)

\* re.match(video_id_regex, s): ^[a-zA-Z0-9_-]{11}$ ; Python's $ matches at
\* the end of the string and also just before a newline that ends it
MatchVideoIdRegex(s) ==
    /\ IdAt(s, 1)
    /\ \/ Len(s) = IdLen
       \/ Len(s) = IdLen + 1 /\ s[IdLen + 1] = "\n"

----------------------------------------------------------------------------
(* Values returned and exceptions raised *)

NoExc == [type |-> "", msg |-> ""]

\* a call that returned v
Return(v) == [raised |-> FALSE, value |-> v, exc |-> NoExc]

\* a call that raised exception type(msg); msg is the message's fixed text
Raise(type, msg) ==
    [raised |-> TRUE, value |-> <<>>, exc |-> [type |-> type, msg |-> msg]]

----------------------------------------------------------------------------
(* youtube_utils.py: the resolver *)

\* a faulty validate_youtube_url: any youtube.com address passes
validate_any_youtube_address(s) ==
    \/ MatchYoutubeRegex(s)
    \/ MatchVideoIdRegex(s)
    \/ Contains(s, <<"y", "o", "u", "t", "u", "b", "e", ".", "c", "o", "m">>)

validate_youtube_url(s) == MatchYoutubeRegex(s) \/ MatchVideoIdRegex(s)

extract_video_id(s) ==
    IF ~validate_youtube_url(s)
    THEN Raise("ValueError", "Invalid YouTube URL or video ID format")
    ELSE IF /\ ~Contains(s, <<"/">>)
            /\ ~Contains(s, <<"y", "o", "u", "t", "u", "b", "e", ".", "c", "o", "m">>)
            /\ ~Contains(s, <<"y", "o", "u", "t", "u", ".", "b", "e">>)
    THEN Return(s)
    ELSE IF Contains(s, <<"y", "o", "u", "t", "u", ".", "b", "e">>)
    THEN LET parts == Split(s, <<"/">>)
             last  == parts[Len(parts)]
         IN  Return(Split(last, <<"?">>)[1])
    ELSE IF Contains(s, <<"v", "=">>)
    THEN LET video_id == Split(s, <<"v", "=">>)[2]
             ampersand_pos == Find(video_id, <<"&">>)
         IN  IF ampersand_pos # -1
             THEN Return(Slice(video_id, ampersand_pos))
             ELSE Return(video_id)
    ELSE Return(s)

----------------------------------------------------------------------------
(* Exceptions: which except clause catches what *)

\* isinstance(e, types): TranscriptsDisabled and NoTranscriptFound derive from
\* Exception (not from ValueError), as do the openai errors
Caught(r, types) == r.raised /\ r.exc.type \in types

----------------------------------------------------------------------------
(* youtube_utils.py: the transcript fetcher *)

\* what YouTubeTranscriptApi.get_transcript may do for one request
TranscriptResponses ==
    {"captions", "blank", "TranscriptsDisabled", "NoTranscriptFound", "error"}

\* the flattened caption text of a video
TranscriptOf(video_id) == <<video_id>>

get_transcript(video_id, response) ==
    LET try ==
            IF response = "TranscriptsDisabled"
            THEN Raise("TranscriptsDisabled", "service")
            ELSE IF response = "NoTranscriptFound"
            THEN Raise("NoTranscriptFound", "service")
            ELSE IF response = "error"
            THEN Raise("Exception", "service")
            ELSE IF response = "blank"
            THEN Raise("ValueError", "Empty transcript retrieved")
            ELSE Return(TranscriptOf(video_id))
    IN  IF Caught(try, {"TranscriptsDisabled"})
        THEN Raise("TranscriptsDisabled", "No captions available for video ID")
        ELSE IF Caught(try, {"NoTranscriptFound"})
        THEN Raise("NoTranscriptFound", "No transcript found in languages")
        ELSE IF try.raised
        THEN Raise("ValueError", "Error retrieving transcript")
        ELSE try

----------------------------------------------------------------------------
(* chatbot.py: the YouTubeChatbot session *)

\* config.RETRIEVAL_K
RETRIEVAL_K == 4

\* the value of a field that holds no object
None == [id |-> 0]

\* the fields set by __init__
NewChatbot == [vector_store |-> None, retriever |-> None, chain |-> None]

\* what RecursiveCharacterTextSplitter.create_documents may do
SplitterResponses == {"chunks", "empty", "error"}

\* what a call of the OpenAI API (embeddings or chat completion) may do
OpenAIResponses == {"ok", "AuthenticationError", "RateLimitError", "APIConnectionError"}

\* self.text_splitter.create_documents([transcript])
create_documents(transcript, response) ==
    IF response = "error" THEN Raise("Exception", "splitter")
    ELSE IF response = "empty" THEN Return(<<>>)
    ELSE Return(<<[page_content |-> transcript]>>)

\* FAISS.from_documents(chunks, self.embeddings): embeds the chunks and
\* returns a new index object (identity fresh) holding exactly these chunks
from_documents(chunks, response, fresh) ==
    IF response # "ok" THEN Raise(response, "embeddings")
    ELSE Return([id |-> fresh, docs |-> chunks])

\* self.vector_store.as_retriever(search_type="similarity", search_kwargs={"k": ...})
as_retriever(store) ==
    [vectorstore |-> store, search_type |-> "similarity", k |-> RETRIEVAL_K]

\* a faulty _create_chain: the chain is built once and kept afterwards
create_chain_once(self) ==
    IF self.chain = None
    THEN [self EXCEPT !.chain = [retriever |-> self.retriever,
                                 steps |-> <<"parallel", "prompt", "llm", "parser">>]]
    ELSE self

\* the composed runnable: parallel(context: retriever | format_docs,
\* question: passthrough) | prompt | llm | parser
_create_chain(self) ==
    [self EXCEPT !.chain = [retriever |-> self.retriever,
                            steps |-> <<"parallel", "prompt", "llm", "parser">>]]

\* what one call leaves behind: the session fields, the value returned or
\* exception raised, the services invoked, the objects created
Outcome(self, res, invoked, created) ==
    [self |-> self, result |-> res, calls |-> invoked, created |-> created]

\* the try block of process_video
process_video_try(self, video_url_or_id, env, fresh) ==
    IF ~validate_youtube_url(video_url_or_id)
    THEN Outcome(self, Raise("ValueError", "Invalid YouTube URL or video ID format"),
                 <<>>, <<>>)
    ELSE
    LET video_id == extract_video_id(video_url_or_id) IN
    IF video_id.raised THEN Outcome(self, video_id, <<>>, <<>>)
    ELSE
    LET transcript == get_transcript(video_id.value, env.transcript) IN
    IF transcript.raised THEN Outcome(self, transcript, <<"transcript">>, <<>>)
    ELSE IF transcript.value = <<>>
    THEN Outcome(self, Raise("ValueError", "Could not retrieve transcript for this video"),
                 <<"transcript">>, <<>>)
    ELSE
    LET chunks == create_documents(transcript.value, env.splitter) IN
    IF chunks.raised THEN Outcome(self, chunks, <<"transcript">>, <<>>)
    ELSE IF chunks.value = <<>>
    THEN Outcome(self, Raise("ValueError", "Failed to split transcript into chunks"),
                 <<"transcript">>, <<>>)
    ELSE
    LET store == from_documents(chunks.value, env.embeddings, fresh) IN
    IF store.raised THEN Outcome(self, store, <<"transcript", "embeddings">>, <<>>)
    ELSE
    LET s1 == [self EXCEPT !.vector_store = store.value]
        s2 == [s1 EXCEPT !.retriever = as_retriever(s1.vector_store)]
        s3 == _create_chain(s2)
    IN  Outcome(s3, Return(TRUE), <<"transcript", "embeddings">>, <<store.value>>)

\* the video whose transcript an index holds
VideoOf(store) == store.docs[1].page_content[1]

\* a faulty process_video: the fields are cleared before the video is processed
process_video_clearing_first(self, video_url_or_id, env, fresh) ==
    LET out == process_video_try(NewChatbot, video_url_or_id, env, fresh) IN
    IF Caught(out.result, {"ValueError", "AuthenticationError", "RateLimitError"})
    THEN out
    ELSE IF out.result.raised
    THEN [out EXCEPT !.result = Raise("ValueError", "Error processing video")]
    ELSE out

\* a variant of process_video that returns at once when the session already
\* holds the index of the video the reference resolves to
process_video_cached(self, video_url_or_id, env, fresh) ==
    LET video_id == extract_video_id(video_url_or_id)
        out == process_video_try(self, video_url_or_id, env, fresh)
    IN  IF /\ ~video_id.raised
           /\ self.vector_store # None
           /\ VideoOf(self.vector_store) = video_id.value
        THEN Outcome(self, Return(TRUE), <<>>, <<>>)
        ELSE IF Caught(out.result, {"ValueError", "AuthenticationError", "RateLimitError"})
        THEN out
        ELSE IF out.result.raised
        THEN [out EXCEPT !.result = Raise("ValueError", "Error processing video")]
        ELSE out

\* process_video: the try block and its except clauses
process_video(self, video_url_or_id, env, fresh) ==
    LET out == process_video_try(self, video_url_or_id, env, fresh) IN
    IF Caught(out.result, {"ValueError", "AuthenticationError", "RateLimitError"})
    THEN out
    ELSE IF out.result.raised
    THEN [out EXCEPT !.result = Raise("ValueError", "Error processing video")]
    ELSE out

\* self.chain.invoke(question): retrieve the context, then generate
invoke(runnable, question, env) ==
    IF env.retrieval # "ok"
    THEN Outcome(None, Raise(env.retrieval, "embeddings"), <<"retrieval">>, <<>>)
    ELSE IF env.llm # "ok"
    THEN Outcome(None, Raise(env.llm, "llm"), <<"retrieval", "llm">>, <<>>)
    ELSE Outcome(None,
                 Return([context |-> runnable.retriever.vectorstore.docs,
                         question |-> question]),
                 <<"retrieval", "llm">>, <<>>)

\* a faulty ask: the check of self.chain is missing, so invoking None fails
\* inside the try block
ask_unguarded(self, question, env) ==
    IF self.chain = None
    THEN Outcome(self, Raise("ValueError", "Error generating answer"), <<>>, <<>>)
    ELSE
    LET out == invoke(self.chain, question, env) IN
    IF Caught(out.result, {"AuthenticationError"})
    THEN Outcome(self, Raise("ValueError", "Authentication error"), out.calls, <<>>)
    ELSE IF Caught(out.result, {"RateLimitError"})
    THEN Outcome(self, Raise("ValueError", "Rate limit exceeded"), out.calls, <<>>)
    ELSE IF out.result.raised
    THEN Outcome(self, Raise("ValueError", "Error generating answer"), out.calls, <<>>)
    ELSE Outcome(self, out.result, out.calls, <<>>)

\* a faulty ask: one except clause for every failure of the chain
ask_one_except_clause(self, question, env) ==
    IF self.chain = None
    THEN Outcome(self, Raise("ValueError", "Please process a video first using process_video()"),
                 <<>>, <<>>)
    ELSE
    LET out == invoke(self.chain, question, env) IN
    IF out.result.raised
    THEN Outcome(self, Raise("ValueError", "Error generating answer"), out.calls, <<>>)
    ELSE Outcome(self, out.result, out.calls, <<>>)

ask(self, question, env) ==
    IF self.chain = None
    THEN Outcome(self, Raise("ValueError", "Please process a video first using process_video()"),
                 <<>>, <<>>)
    ELSE
    LET out == invoke(self.chain, question, env) IN
    IF Caught(out.result, {"AuthenticationError"})
    THEN Outcome(self, Raise("ValueError", "Authentication error"), out.calls, <<>>)
    ELSE IF Caught(out.result, {"RateLimitError"})
    THEN Outcome(self, Raise("ValueError", "Rate limit exceeded"), out.calls, <<>>)
    ELSE IF out.result.raised
    THEN Outcome(self, Raise("ValueError", "Error generating answer"), out.calls, <<>>)
    ELSE Outcome(self, out.result, out.calls, <<>>)

----------------------------------------------------------------------------
(* Inputs: references, questions and service responses *)

VideoA == <<"a", "b", "c", "1", "2", "3", "4", "5", "6", "7", "8">>
VideoB == <<"d", "Q", "w", "4", "w", "9", "W", "g", "X", "c", "Q">>
VideoC == <<"a", "-", "c", "_", "2", "3", "4", "5", "_", "-", "8">>
ShortId == <<"a", "b", "c", "1", "2", "3", "4", "5", "6", "7">>
BadCharId == <<"a", "b", "c", "1", "2", "3", "4", "5", "6", "7", "!">>

EmbedHost == <<"y", "o", "u", "t", "u", "b", "e", ".", "c", "o", "m", "/", "e", "m", "b", "e", "d", "/">>
WatchNoParam == <<"y", "o", "u", "t", "u", "b", "e", ".", "c", "o", "m", "/", "w", "a", "t", "c", "h", "?">>
OtherHost == <<"v", "i", "m", "e", "o", ".", "c", "o", "m", "/">>
YoutubeCom == <<"y", "o", "u", "t", "u", "b", "e", ".", "c", "o", "m">>
Hello == <<"h", "e", "l", "l", "o", " ", "w", "o", "r", "l", "d">>

TailT == <<"&", "t", "=", "5">>
TailQ == <<"?", "t", "=", "5">>
TailFeature == <<"&", "f", "e", "a", "t", "u", "r", "e", "=", "y", "o", "u", "t", "u", ".", "b", "e">>
TailExtra == <<"X", "Y", "Z">>
TailPath == <<"/", "l", "i", "v", "e">>
TailQPath == <<"?", "u", "=", "a", "/", "b">>
TailRv == <<"&", "r", "v", "=", "1">>
TailNewline == <<"\n">>

VideoIds == {VideoA, VideoB, VideoC}

\* references given to the resolver: every scheme, prefix and host with
\* well-formed and malformed IDs, followed by nothing, a query string, more
\* text or a path; bare IDs; and strings that are no reference at all
Refs ==
    {lead \o host \o id \o tail :
        lead \in {<<>>, HttpsScheme, HttpsScheme \o WwwPrefix, HttpScheme \o WwwPrefix},
        host \in HostAlts \cup {EmbedHost, WatchNoParam, OtherHost},
        id \in {VideoA, ShortId},
        tail \in {<<>>, TailT, TailQ, TailFeature, TailExtra, TailPath, TailQPath, TailRv}}
    \cup {id \o tail : id \in VideoIds \cup {ShortId, BadCharId},
                       tail \in {<<>>, TailNewline, TailExtra, TailT}}
    \cup {HttpsScheme \o WwwPrefix \o WatchHost \o VideoB,
          HttpsScheme \o ShortHost \o VideoC \o TailQ,
          <<>>, Hello, YoutubeCom, HttpsScheme \o WwwPrefix \o YoutubeCom \o <<"/">>}

\* references given to process_video
SessionRefs ==
    {VideoA, VideoB,
     HttpsScheme \o WwwPrefix \o WatchHost \o VideoA,
     HttpsScheme \o WwwPrefix \o WatchHost \o VideoB \o TailT,
     HttpsScheme \o ShortHost \o VideoA \o TailQ,
     HttpsScheme \o WwwPrefix \o WatchHost \o VideoA \o TailFeature,
     HttpsScheme \o ShortHost \o VideoA \o TailExtra,
     VideoA \o TailNewline,
     HttpsScheme \o WwwPrefix \o EmbedHost \o VideoA,
     ShortId, Hello, <<>>}

Questions == {<<"w", "h", "y", "?">>, <<>>}

\* the responses of the services during one process_video: a service behind
\* a failed one is not called
ProcessEnvs ==
    {[transcript |-> t, splitter |-> s, embeddings |-> e, retrieval |-> "unused", llm |-> "unused"] :
        t \in TranscriptResponses,
        s \in SplitterResponses \cup {"unused"},
        e \in OpenAIResponses \cup {"unused"}}
    \cap {x \in [transcript : TranscriptResponses,
                 splitter : SplitterResponses \cup {"unused"},
                 embeddings : OpenAIResponses \cup {"unused"},
                 retrieval : {"unused"}, llm : {"unused"}] :
            /\ (x.splitter = "unused") <=> (x.transcript # "captions")
            /\ (x.embeddings = "unused") <=> (x.splitter # "chunks")}

\* the responses of the services during one ask
AskEnvs ==
    {x \in [transcript : {"unused"}, splitter : {"unused"}, embeddings : {"unused"},
            retrieval : OpenAIResponses, llm : OpenAIResponses \cup {"unused"}] :
        (x.llm = "unused") <=> (x.retrieval # "ok")}

NoEnv == [transcript |-> "unused", splitter |-> "unused", embeddings |-> "unused",
          retrieval |-> "unused", llm |-> "unused"]

----------------------------------------------------------------------------
(* The state machine *)

\* the session object
Self == [vector_store |-> vector_store, retriever |-> retriever, chain |-> chain]

\* st.session_state.current_video_id = None: a value no str equals
NoVideoId == <<"None">>

\* a YouTubeChatbot right after __init__; nothing called yet
\* (and the session state of app.py as its first run sets it)
Init ==
    /\ vector_store = NewChatbot.vector_store
    /\ retriever = NewChatbot.retriever
    /\ chain = NewChatbot.chain
    /\ nextId = 1
    /\ op = "none"
    /\ arg = <<>>
    /\ services = NoEnv
    /\ result = Return(<<>>)
    /\ calls = <<>>
    /\ pre = NewChatbot
    /\ prev = [op |-> "none", raised |-> FALSE]
    /\ lastBuilt = None
    /\ chatbot = "None"
    /\ video_processed = FALSE
    /\ current_video_id = NoVideoId

\* the bookkeeping every call shares
Called(name, a, e, out) ==
    /\ vector_store' = out.self.vector_store
    /\ retriever' = out.self.retriever
    /\ chain' = out.self.chain
    /\ nextId' = nextId + Len(out.created)
    /\ op' = name
    /\ arg' = a
    /\ services' = e
    /\ result' = out.result
    /\ calls' = out.calls
    /\ pre' = Self
    /\ prev' = [op |-> op, raised |-> result.raised]
    /\ lastBuilt' = IF name = "process_video" /\ ~out.result.raised /\ out.created # <<>>
                    THEN out.created[Len(out.created)]
                    ELSE lastBuilt

\* chatbot.process_video(reference)
ProcessVideo ==
    /\ nextId <= MaxBuilds
    /\ \E ref \in SessionRefs, e \in ProcessEnvs :
          Called("process_video", ref, e, process_video(Self, ref, e, nextId))
    /\ UNCHANGED appVars

\* chatbot.ask(question)
Ask ==
    \E q \in Questions, e \in AskEnvs :
        Called("ask", q, e, ask(Self, q, e))
    /\ UNCHANGED appVars

\* validate_youtube_url(reference), called on its own
Validate ==
    \E ref \in Refs :
        Called("validate_youtube_url", ref, NoEnv,
               Outcome(Self, Return(validate_youtube_url(ref)), <<>>, <<>>))
    /\ UNCHANGED appVars

\* extract_video_id(reference), called on its own
ExtractVideoId ==
    \E ref \in Refs :
        Called("extract_video_id", ref, NoEnv,
               Outcome(Self, extract_video_id(ref), <<>>, <<>>))
    /\ UNCHANGED appVars

\* the session: process_video and ask in any order
Next == ProcessVideo \/ Ask

Spec == Init /\ [][Next]_vars

\* the resolver alone
NextResolver == Validate \/ ExtractVideoId

SpecResolver == Init /\ [][NextResolver]_vars

----------------------------------------------------------------------------
(* app.py: the Streamlit page *)

\* what the user may have typed into the video URL field
AppRefs ==
    {VideoA, VideoB,
     HttpsScheme \o WwwPrefix \o WatchHost \o VideoA,
     HttpsScheme \o ShortHost \o VideoB \o TailQ,
     Hello, <<>>}

\* what the user may have typed into the API key field
ApiKeys == {"", "sk-key"}

\* what YouTubeChatbot() may do: __init__ raises ValueError when building
\* the OpenAI clients fails
InitResponses == {"ok", "error"}

\* the session state as a record
App == [chatbot |-> chatbot, video_processed |-> video_processed,
        current_video_id |-> current_video_id]

\* what one run of the page leaves behind: the session state, the fields of
\* the stored chatbot, what is shown, the services invoked, the objects created
Page(app, self, res, invoked, created) ==
    [app |-> app, self |-> self, result |-> res, calls |-> invoked, created |-> created]

\* lines 162-167: what the page records once process_video has returned or
\* raised (out); a new chatbot is stored by then
process_video_done(app, video_id, out) ==
    IF out.result.raised
    THEN Page(app, out.self, out.result, out.calls, out.created)
    ELSE IF out.result.value
    THEN Page([app EXCEPT !.video_processed = TRUE, !.current_video_id = video_id],
              out.self, Return("Video processed successfully"), out.calls, out.created)
    ELSE Page(app, out.self, Return("Failed to process video"), out.calls, out.created)

\* lines 152-169: the try block once extract_video_id has returned video_id
process_button_try(app, self, video_url, video_id, env, init, fresh) ==
    IF video_id.raised THEN Page(app, self, video_id, <<>>, <<>>)
    ELSE IF app.chatbot = "None" \/ app.current_video_id # video_id.value
    THEN IF init # "ok"
         THEN Page(app, self, Raise("ValueError", "Error initializing chatbot"), <<>>, <<>>)
         ELSE process_video_done([app EXCEPT !.chatbot = "YouTubeChatbot"],
                                 video_id.value,
                                 process_video(NewChatbot, video_url, env, fresh))
    ELSE Page(app, self, Return("Video already processed"), <<>>, <<>>)

\* the run of the page after Process was pressed; an exception of the try
\* block is shown by st.error and the run goes on
process_button(app, self, video_url, api_key, env, init, fresh) ==
    IF video_url = <<>>
    THEN Page(app, self, Return("Please enter a YouTube video URL"), <<>>, <<>>)
    ELSE IF api_key = ""
    THEN Page(app, self, Return("Please enter your OpenAI API key in the sidebar"), <<>>, <<>>)
    ELSE process_button_try(app, self, video_url, extract_video_id(video_url),
                            env, init, fresh)

\* the question form is shown
QuestionFormShown(app) == app.video_processed /\ app.chatbot # "None"

\* the page shows what ask returned or raised (out)
ask_done(app, out) == Page(app, out.self, out.result, out.calls, out.created)

\* the run of the page after Get Answer was pressed
answer_button(app, self, question, env) ==
    IF question = <<>>
    THEN Page(app, self, Return("Please enter a question"), <<>>, <<>>)
    ELSE ask_done(app, ask(self, question, env))

\* what a run of the page leaves in the variables
Ran(name, a, e, out) ==
    /\ Called(name, a, e, out)
    /\ chatbot' = out.app.chatbot
    /\ video_processed' = out.app.video_processed
    /\ current_video_id' = out.app.current_video_id

\* the user presses Process
ProcessButton ==
    /\ nextId <= MaxBuilds
    /\ \E video_url \in AppRefs, api_key \in ApiKeys, init \in InitResponses,
          e \in ProcessEnvs \cup {NoEnv} :
          \* without a key, or without a chatbot, no service is reached
          /\ (api_key = "" => init = "ok")
          /\ (e = NoEnv) <=> (api_key = "" \/ init = "error")
          /\ Ran("process_button", video_url, e,
                 process_button(App, Self, video_url, api_key, e, init, nextId))

\* the user presses Get Answer, which the page shows with the question form
AnswerButton ==
    /\ QuestionFormShown(App)
    /\ \E q \in Questions, e \in AskEnvs :
          Ran("answer_button", q, e, answer_button(App, Self, q, e))

\* the page: the two buttons in any order
NextApp == ProcessButton \/ AnswerButton

SpecApp == Init /\ [][NextApp]_vars

----------------------------------------------------------------------------
(* Vocabulary of the properties *)

\* the last call returned v
Returned(v) == ~result.raised /\ result.value = v

\* the last call raised type(msg)
Raised(type, msg) == result.raised /\ result.exc = [type |-> type, msg |-> msg]

\* the error kinds of the facade, as the code raises them
InvalidReference == Raised("ValueError", "Invalid YouTube URL or video ID format")
NotReady == Raised("ValueError", "Please process a video first using process_video()")

\* s ends after n characters, or goes on with the character c
EndsOrContinues(s, n, c) == Len(s) = n \/ (Len(s) > n /\ s[n + 1] = c)

\* s is a reference to video v: the bare ID, a watch URL whose v parameter is
\* v (further parameters may follow), or a short URL of v (a query string may
\* follow)
RefersTo(s, v) ==
    \/ s = v
    \/ \E sch \in SchemeAlts, www \in WwwAlts :
           \/ LET p == sch \o www \o WatchHost \o v IN
              StartsWith(s, p) /\ EndsOrContinues(s, Len(p), "&")
           \/ LET p == sch \o www \o ShortHost \o v IN
              StartsWith(s, p) /\ EndsOrContinues(s, Len(p), "?")

\* s is a valid YouTube URL or ID: a reference to some 11-character ID
WellFormedReference(s) ==
    \/ Len(s) = IdLen /\ IdAt(s, 1)
    \/ \E sch \in SchemeAlts, www \in WwwAlts, host \in HostAlts :
           LET p == sch \o www \o host IN
           /\ StartsWith(s, p)
           /\ IdAt(s, Len(p) + 1)
           /\ EndsOrContinues(s, Len(p) + IdLen, IF host = WatchHost THEN "&" ELSE "?")

\* every service answers
AllOk == [transcript |-> "unused", splitter |-> "unused", embeddings |-> "unused",
          retrieval |-> "ok", llm |-> "ok"]

\* the last call was a process_video of the video that the call before it, a
\* successful process_video, had processed
SameVideoTwice ==
    /\ op = "process_video"
    /\ prev.op = "process_video"
    /\ ~prev.raised
    /\ validate_youtube_url(arg)
    /\ ~extract_video_id(arg).raised
    /\ extract_video_id(arg).value = VideoOf(pre.vector_store)

\* the failure of the chain during the last ask
UnderlyingFailure ==
    IF services.retrieval # "ok" THEN services.retrieval ELSE services.llm

----------------------------------------------------------------------------
(* Properties *)

\* C1: a process_video that fails, at whichever step, leaves vector_store,
\* retriever and chain exactly as they were when it was called, and a session
\* that was ready still answers from the video processed before.
C1_FailedProcessVideoKeepsState ==
    (op = "process_video" /\ result.raised) =>
        /\ Self = pre
        /\ pre.chain # None =>
              \A q \in Questions :
                  LET out == ask(Self, q, AllOk) IN
                  /\ ~out.result.raised
                  /\ out.result.value = [context |-> pre.vector_store.docs, question |-> q]

\* a ready session whose process_video failed at the embedding of the chunks
C1_Witness ==
    /\ op = "process_video"
    /\ result.raised
    /\ pre.chain # None
    /\ calls = <<"transcript", "embeddings">>

\* C2 as stated: a second process_video of the same video in a row fetches
\* and embeds nothing, keeps the same index object and returns success.
C2_SecondCallIsNoOp ==
    SameVideoTwice =>
        /\ calls = <<>>
        /\ vector_store = pre.vector_store
        /\ Returned(TRUE)

\* C2 as the code has it: a second process_video of the same video in a row
\* runs the whole pipeline again: it fetches the transcript again and, when
\* every step succeeds, embeds again, holds a newly built index object for the
\* same video and returns success; when a step fails the index of the first
\* call is kept.
C2_SecondCallRebuilds ==
    SameVideoTwice =>
        /\ Len(calls) >= 1 /\ calls[1] = "transcript"
        /\ result.raised => vector_store = pre.vector_store
        /\ ~result.raised =>
              /\ Returned(TRUE)
              /\ calls = <<"transcript", "embeddings">>
              /\ vector_store.id # pre.vector_store.id
              /\ VideoOf(vector_store) = VideoOf(pre.vector_store)

\* the same video processed twice in a row, both times with success
C2_Witness == SameVideoTwice /\ ~result.raised

\* C3: as long as no process_video has succeeded, ask fails with NotReady
\* and invokes neither retrieval nor the generative model.
C3_AskBeforeProcessIsNotReady ==
    (op = "ask" /\ lastBuilt = None) => (NotReady /\ calls = <<>>)

\* an ask right after a failed process_video, no video processed so far
C3_Witness ==
    /\ op = "ask"
    /\ lastBuilt = None
    /\ prev.op = "process_video"
    /\ prev.raised

\* C4: when the transcript service reports that captions are disabled,
\* process_video fails with that same kind, TranscriptsDisabled.
C4_CaptionsDisabledPropagates ==
    (/\ op = "process_video"
     /\ validate_youtube_url(arg)
     /\ services.transcript = "TranscriptsDisabled")
        => (result.raised /\ result.exc.type = "TranscriptsDisabled")

\* C5: for every accepted reference to a video v (bare ID, watch URL with or
\* without further parameters, short URL with or without a query string),
\* extract_video_id returns exactly v.
C5_ReferencesToOneVideoYieldItsId ==
    op = "extract_video_id" =>
        \A v \in VideoIds :
            (validate_youtube_url(arg) /\ RefersTo(arg, v)) => Returned(v)

\* C6: for every string that is not a valid YouTube URL or ID, validate is
\* false, extract_video_id fails with InvalidReference, and process_video
\* fails with InvalidReference without calling any service.
C6_InvalidReferenceIsRejected ==
    (op = "process_video" /\ ~WellFormedReference(arg)) =>
        /\ ~validate_youtube_url(arg)
        /\ extract_video_id(arg).raised
        /\ InvalidReference
        /\ calls = <<>>

\* C7: when the chain fails during ask on a ready session, ask fails with
\* the authentication kind exactly for an authentication failure, with the
\* rate-limit kind exactly for a rate-limit failure, and with the generation
\* kind exactly for any other failure.
C7_AskErrorKinds ==
    (op = "ask" /\ pre.chain # None /\ UnderlyingFailure # "ok") =>
        /\ result.raised
        /\ result.exc.type = "ValueError"
        /\ result.exc.msg = "Authentication error"
              <=> UnderlyingFailure = "AuthenticationError"
        /\ result.exc.msg = "Rate limit exceeded"
              <=> UnderlyingFailure = "RateLimitError"
        /\ result.exc.msg = "Error generating answer"
              <=> UnderlyingFailure \notin {"AuthenticationError", "RateLimitError"}

\* an ask on a ready session whose generative model was rate limited
C7_Witness ==
    /\ op = "ask"
    /\ pre.chain # None
    /\ services.retrieval = "ok"
    /\ services.llm = "RateLimitError"

\* C8: the session holds exactly the index built by the most recent
\* successful process_video, holding the chunks of that video alone; the
\* chain retrieves from that index; ask changes none of the three fields.
C8_SessionHoldsLatestIndex ==
    /\ vector_store = lastBuilt
    /\ lastBuilt = None => (retriever = None /\ chain = None)
    /\ lastBuilt # None =>
          /\ retriever # None /\ chain # None
          /\ retriever.vectorstore = lastBuilt
          /\ chain.retriever = retriever
    /\ (op = "process_video" /\ ~result.raised) =>
          /\ vector_store.id # pre.vector_store.id
          /\ vector_store.docs =
                <<[page_content |-> TranscriptOf(extract_video_id(arg).value)]>>
    /\ op = "ask" => Self = pre
    /\ (op = "ask" /\ ~result.raised) => result.value.context = lastBuilt.docs

\* an answered ask on a session whose index has replaced an earlier one
C8_Witness ==
    /\ op = "ask"
    /\ ~result.raised
    /\ lastBuilt.id >= 2

\* C9: for every reference validate accepts, extract_video_id returns 11
\* characters, each a letter, a digit, '-' or '_'.
C9_ExtractedIdIsCanonical ==
    (op = "extract_video_id" /\ validate_youtube_url(arg)) =>
        /\ ~result.raised
        /\ Len(result.value) = IdLen
        /\ \A i \in 1..Len(result.value) : result.value[i] \in IdChars

\* the references C10 is about: youtube.com, but neither v= nor youtu.be
DomainOnlyReference(s) ==
    /\ Contains(s, <<"y", "o", "u", "t", "u", "b", "e", ".", "c", "o", "m">>)
    /\ ~Contains(s, <<"v", "=">>)
    /\ ~Contains(s, <<"y", "o", "u", "t", "u", ".", "b", "e">>)

\* C10 as stated: for a reference with youtube.com but neither v= nor
\* youtu.be, extract_video_id returns the raw reference unchanged.
C10_FallsThroughToRawReference ==
    (op = "extract_video_id" /\ DomainOnlyReference(arg)) => Returned(arg)

\* C10 as the code has it: for a reference with youtube.com but neither v=
\* nor youtu.be, extract_video_id fails with InvalidReference, because
\* validate rejects every such reference; the final return is not reached.
C10_DomainOnlyReferenceIsInvalid ==
    (op = "extract_video_id" /\ DomainOnlyReference(arg)) => InvalidReference

\* extract_video_id called with such a reference
C10_Witness == op = "extract_video_id" /\ DomainOnlyReference(arg)

\* C11: whenever the question form is shown (video_processed is true and
\* the stored chatbot is not None), the stored chatbot has a chain built for
\* the video recorded in current_video_id; so Get Answer never fails with the
\* not-ready error, and a Process reported as already processed finds the
\* chatbot holding the index of that video.
C11_QuestionFormMeansReady ==
    /\ QuestionFormShown(App) =>
          /\ chain # None
          /\ vector_store # None
          /\ VideoOf(vector_store) = current_video_id
    /\ op = "answer_button" => ~NotReady
    /\ (op = "process_button" /\ ~result.raised /\ result.value = "Video already processed") =>
          /\ chain # None
          /\ vector_store # None
          /\ VideoOf(vector_store) = extract_video_id(arg).value

====
